---- MODULE Spec2Model ----
(***************************************************************************)
(* Inventory ledger and external-sync client of the retail management app. *)
(*                                                                         *)
(* The relational store is modelled as its committed tables plus one       *)
(* SQLAlchemy session (unit of work) per request.  A session loads a       *)
(* product row from the committed table the first time the request reads   *)
(* it and afterwards answers from its identity map; attribute writes stay  *)
(* in the session until commit, which writes the new attribute VALUES      *)
(* (UPDATE product SET stock = <value>), inserts the pending rows and      *)
(* expires every loaded object.  rollback drops the pending work.          *)
(***************************************************************************)
EXTENDS Integers, Sequences, FiniteSets, TLC

(* ------------------------------ bounds -------------------------------- *)
NumReqs == 2
NumProducts == 2
MaxStock == 2
MaxQty == 2
MaxLines == 2
MaxPrice == 1
NumClients == 2
MaxDepth == 2
MaxCalls == 2
MaxErrors == 4
MaxReports == 3
MaxMirrorCalls == 2
MaxRows == 3
MaxSnapshot == 2

(* -------------------------- program constants ------------------------- *)
LowStockDefault == 10
ErrorThreshold == 3

Reqs == 1..NumReqs
Products == 1..NumProducts
Quantities == 0..MaxQty
Adjustments == (0 - MaxQty)..MaxQty
Prices == 0..MaxPrice
Thresholds == {0, LowStockDefault}
Clients == 1..NumClients
Snapshots == 1..MaxSnapshot

VARIABLES
    pExists,      \* ids of the rows of table product
    stock,        \* committed Product.stock
    price,        \* committed Product.price
    ledger,       \* committed table inventory_entry, in insertion order
    orders,       \* committed table order: id -> total_amount
    orderItems,   \* committed table order_item, in insertion order
    nextOrderId,  \* autoincrement of order.id
    threshold,    \* Settings.low_stock_threshold (10 when there is no row)
    lock,         \* stock_update_lock: 0 when free, else the holding request
    op,           \* the handler each request runs
    pc,           \* the position of each request in its handler
    sess,         \* db.session of each request
    loc,          \* the handler's local variables
    result,       \* what the handler reports to its caller
    wrote,        \* history: the request committed a stock/ledger/order change
    told,         \* history: what the request told the external services
    opening,      \* history: product 1's stock and sold units in the initial state
    status,       \* utils.GOOGLE_SHEETS_STATUS
    depth,        \* how many Sheets functions each client thread is inside
    cpc,          \* the position of each client thread in it
    ncalls,       \* _execute_sheets_api_call calls the function has made
    sawEnabled,   \* history: 'enabled' as the thread's last _execute_sheets_api_call read it
    consec,       \* history: failed attempts since the last success or reset
    failsBefore,  \* history: consec just before the last success
    lastReport,   \* history: the last event that wrote GOOGLE_SHEETS_STATUS
    contactedOpen,\* history: the service was contacted while 'enabled' was False
    missed,       \* history: the last step was a failure that no status update followed
    hook,         \* the reply and the return value of the last send_to_n8n_webhook
    reporter,     \* each thread's position inside update_google_sheets_status(False, ..)
    reports,      \* history: calls of update_google_sheets_status(False, ..) begun
    spreadsheet,  \* the Google spreadsheet: its sheets, header rows and data rows
    mirror,       \* each thread's position and locals inside the product mirror
    clean         \* history: every mirror call so far worked and none overlapped

dbVars == <<pExists, stock, price, ledger, orders, orderItems, nextOrderId, threshold>>
reqVars == <<lock, op, pc, sess, loc, result, wrote, told>>
sheetVars == <<status, depth, cpc, ncalls, sawEnabled, consec, failsBefore,
               lastReport, contactedOpen, missed, hook>>
\* what the handlers of the ledger leave alone
mirrorVars == <<spreadsheet, mirror, clean>>
restVars == <<opening, sheetVars, reporter, reports, mirrorVars>>
\* what the functions of the Sheets client leave alone
storeVars == <<dbVars, reqVars, opening, reporter, reports, mirrorVars>>
vars == <<dbVars, reqVars, opening, sheetVars, reporter, reports, mirrorVars>>

(* ------------------------------ helpers ------------------------------- *)
RECURSIVE QtySum(_)
QtySum(s) == IF s = <<>> THEN 0 ELSE Head(s).quantity + QtySum(Tail(s))

SelectProduct(s, p) == SelectSeq(s, LAMBDA e : e.product = p)

\* sum of InventoryEntry.quantity over the ledger entries of product p
LedgerSum(p) == QtySum(SelectProduct(ledger, p))

NoRow == [stock |-> 0, price |-> 0]

EmptySession ==
    [loaded |-> {}, rows |-> [p \in Products |-> NoRow], dirty |-> {}, pdirty |-> {},
     entries |-> <<>>, items |-> <<>>,
     oid |-> 0, oins |-> FALSE, oset |-> FALSE, ototal |-> 0, del |-> 0]

NoLocals ==
    [oid |-> 0, total |-> 0, n |-> 0, todo |-> <<>>, synced |-> FALSE, price |-> 1,
     lines |-> <<>>, committed |-> FALSE, skipped |-> FALSE, anon |-> FALSE,
     refused |-> FALSE]

\* Product.query.get(p): the identity map's object, loaded on first use
Load(s, p) ==
    IF p \in s.loaded THEN s
    ELSE [s EXCEPT !.loaded = @ \cup {p},
                   !.rows[p] = [stock |-> stock[p], price |-> price[p]]]

\* product.stock += d on the session's object
AddStock(s, p, d) ==
    [s EXCEPT !.rows[p].stock = @ + d, !.dirty = @ \cup {p}]

\* a session to which no InventoryEntry is added
AddEntryNone(s, p, q, note) == s

\* db.session.add(InventoryEntry(product_id, quantity, notes))
AddEntry(s, p, q, note) ==
    [s EXCEPT !.entries = Append(@, [product |-> p, quantity |-> q, note |-> note])]

\* an OrderItem that does not copy the price
AddItemUnpriced(s, o, p, q, pr) ==
    [s EXCEPT !.items = Append(@, [order |-> o, product |-> p, quantity |-> q, price |-> 0]),
              !.oid = o]

\* db.session.add(OrderItem(order_id, product_id, quantity, price))
AddItem(s, o, p, q, pr) ==
    [s EXCEPT !.items = Append(@, [order |-> o, product |-> p, quantity |-> q, price |-> pr]),
              !.oid = o]

\* order.total_amount = total on the session's order object
SetTotal(s, o, total) ==
    [s EXCEPT !.oid = o, !.oset = TRUE, !.ototal = total]

\* db.session.add(order); db.session.flush(): the INSERT is pending
NewOrder(s, o) ==
    [s EXCEPT !.oid = o, !.oins = TRUE]

\* the session holds work that a commit would write
Pending(s) ==
    \/ s.dirty # {}
    \/ s.pdirty # {}
    \/ s.entries # <<>>
    \/ s.items # <<>>
    \/ s.oins
    \/ s.oset
    \/ s.del # 0

\* the flush of the session succeeds: an UPDATE or DELETE of an order row
\* that another request has deleted matches no row and raises
Flushable(s) ==
    /\ s.del # 0 => s.del \in DOMAIN orders
    /\ (~s.oins /\ (s.oset \/ s.items # <<>>)) => s.oid \in DOMAIN orders

StockAfter(s) == [p \in Products |-> IF p \in s.dirty THEN s.rows[p].stock ELSE stock[p]]

PriceAfter(s) == [p \in Products |-> IF p \in s.pdirty THEN s.rows[p].price ELSE price[p]]

OrdersAfter(s) ==
    LET kept == DOMAIN orders \ {s.del}
        ids  == IF s.oins THEN kept \cup {s.oid} ELSE kept
    IN  [i \in ids |->
            IF i = s.oid /\ s.oins THEN (IF s.oset THEN s.ototal ELSE 0)
            ELSE IF i = s.oid /\ s.oset THEN s.ototal
            ELSE orders[i]]

ItemsAfter(s) ==
    SelectSeq(orderItems \o s.items, LAMBDA it : it.order # s.del)

\* db.session.commit() of request r: the pending work becomes the committed
\* tables and every object of the session is expired
Commit(r) ==
    /\ stock' = StockAfter(sess[r])
    /\ price' = PriceAfter(sess[r])
    /\ ledger' = ledger \o sess[r].entries
    /\ orders' = OrdersAfter(sess[r])
    /\ orderItems' = ItemsAfter(sess[r])
    /\ wrote' = [wrote EXCEPT ![r] = @ \/ Pending(sess[r])]
    /\ sess' = [sess EXCEPT ![r] = EmptySession]

\* db.session.rollback() of request r
Rollback(r) ==
    /\ sess' = [sess EXCEPT ![r] = EmptySession]
    /\ UNCHANGED <<stock, price, ledger, orders, orderItems, wrote>>

Finish(r, res) ==
    /\ pc' = [pc EXCEPT ![r] = "done"]
    /\ result' = [result EXCEPT ![r] = res]

(* ------------------------------- Init --------------------------------- *)
\* The ledger of a product that was added with stock 0 and then stocked
\* through add_inventory, and from which one unit was sold if sold = 1.
OpeningLedger(s, sold) ==
    (IF s + sold > 0 THEN <<[product |-> 1, quantity |-> s + sold, note |-> "stock"]>> ELSE <<>>)
    \o (IF sold > 0 THEN <<[product |-> 1, quantity |-> -sold, note |-> "order"]>> ELSE <<>>)

\* A store the program reaches: product 1 was added with stock 0 and price 1
\* and stocked through add_inventory; either no order exists or order 1
\* sold one unit of product 1.  No request is in progress.
StoreInit ==
    /\ pExists = {1}
    /\ price = [p \in Products |-> IF p = 1 THEN 1 ELSE 0]
    /\ threshold \in Thresholds
    /\ \E s \in 0..MaxStock, sold \in {0, 1} :
        /\ stock = [p \in Products |-> IF p = 1 THEN s ELSE 0]
        /\ ledger = OpeningLedger(s, sold)
        /\ orders = [i \in 1..sold |-> 1]
        /\ orderItems = [i \in 1..sold |-> [order |-> 1, product |-> 1, quantity |-> 1, price |-> 1]]
        /\ nextOrderId = sold + 1
        /\ opening = [stock |-> s, sold |-> sold]
    /\ lock = 0
    /\ op = [r \in Reqs |-> "none"]
    /\ pc = [r \in Reqs |-> "new"]
    /\ sess = [r \in Reqs |-> EmptySession]
    /\ loc = [r \in Reqs |-> NoLocals]
    /\ result = [r \in Reqs |-> "none"]
    /\ wrote = [r \in Reqs |-> FALSE]
    /\ told = [r \in Reqs |-> "nothing"]

\* utils.py: the module-level GOOGLE_SHEETS_STATUS, which is also what
\* reset_google_sheets_integration assigns
InitialStatus ==
    [enabled |-> TRUE, last_error |-> "none", error_count |-> 0, last_success |-> "none"]

\* no call of send_to_n8n_webhook has been made
NoCall == [reply |-> "none", ret |-> FALSE]

\* a spreadsheet in which the program has made nothing yet
EmptySpreadsheet ==
    [sheets |-> {}, header |-> FALSE, log |-> 0, invHeader |-> FALSE, inventory |-> <<>>]

\* a thread that has not called the product mirror
NoMirror ==
    [fn |-> "none", pc |-> "idle", p |-> 0, v |-> 0, row |-> 0,
     ret |-> FALSE, upserted |-> FALSE, calls |-> 0]

\* no thread is inside a Sheets function
SheetInit ==
    /\ status = InitialStatus
    /\ depth = [c \in Clients |-> 0]
    /\ cpc = [c \in Clients |-> "idle"]
    /\ ncalls = [c \in Clients |-> 0]
    /\ sawEnabled = [c \in Clients |-> TRUE]
    /\ consec = 0
    /\ failsBefore = 0
    /\ lastReport = "none"
    /\ contactedOpen = FALSE
    /\ missed = "none"
    /\ hook = NoCall
    /\ reporter = [c \in Clients |-> [pc |-> "idle", count |-> 0]]
    /\ reports = 0
    /\ spreadsheet = EmptySpreadsheet
    /\ mirror = [c \in Clients |-> NoMirror]
    /\ clean = TRUE

Init == StoreInit /\ SheetInit

(* --------------------------- external sync ---------------------------- *)
\* What the Sheets mirror called by a handler does, as the handler sees it:
\* "synced" (the last call succeeded), "failed" (a call failed),
\* "denied" (a call failed with 403 or 400, and _execute_sheets_api_call
\* called create_notification), "skipped" (breaker open or no service: no
\* network contact).
SheetsOutcomes == {"synced", "failed", "denied", "skipped"}

\* send_to_n8n_webhook: "off" when N8N_WEBHOOK_URL is not configured
WebhookOutcomes == {"sent", "failed", "off"}

Contacted(sh, wh) == sh # "skipped" \/ wh # "off"

\* what an external contact made now by request r tells: a state that is
\* committed, or one that still sits uncommitted in the request's session
Telling(r, sh, wh) ==
    IF ~Contacted(sh, wh) THEN told[r]
    ELSE IF Pending(sess[r]) THEN "uncommitted"
    ELSE IF told[r] = "uncommitted" THEN "uncommitted" ELSE "committed"

\* requests are interchangeable: they start in the order of their numbers
CanStart(r) == pc[r] = "new" /\ \A x \in Reqs : x < r => pc[x] # "new"

Begin(r, o) == op' = [op EXCEPT ![r] = o]

\* a sale line that never fails the stock test
InsufficientNever(row, q) == FALSE

\* "if product.stock < quantity" of add_order and storefront_sale
Insufficient(row, q) == row.stock < q

(* ------------------------------ add_order ------------------------------ *)
\* routes.py add_order, up to the loop over the submitted lines
AddOrderStart(r) ==
    /\ UNCHANGED restVars
    /\ CanStart(r)
    /\ Begin(r, "add_order")
    /\ \E loggedIn \in BOOLEAN, customer \in BOOLEAN, anyLine \in BOOLEAN :
        IF ~loggedIn THEN
            /\ Finish(r, "login")
            /\ loc' = [loc EXCEPT ![r].anon = TRUE]
            /\ UNCHANGED <<dbVars, lock, sess, wrote, told>>
        ELSE IF ~customer THEN
            /\ Finish(r, "invalid")
            /\ UNCHANGED <<dbVars, lock, sess, loc, wrote, told>>
        ELSE
            /\ nextOrderId' = nextOrderId + 1
            /\ IF anyLine THEN
                  /\ sess' = [sess EXCEPT ![r] = NewOrder(@, nextOrderId)]
                  /\ loc' = [loc EXCEPT ![r].oid = nextOrderId]
                  /\ pc' = [pc EXCEPT ![r] = "ao_loop"]
                  /\ UNCHANGED <<stock, price, ledger, orders, orderItems, wrote, result>>
               ELSE
                  /\ Rollback(r)
                  /\ Finish(r, "invalid")
                  /\ UNCHANGED loc
            /\ UNCHANGED <<pExists, threshold, lock, told>>

\* a line that the loop skips: empty, not a number, or quantity <= 0
AddOrderSkipLine(r) ==
    /\ UNCHANGED restVars
    /\ pc[r] = "ao_loop"
    /\ loc[r].n < MaxLines
    /\ loc' = [loc EXCEPT ![r].n = @ + 1, ![r].skipped = TRUE]
    /\ UNCHANGED <<dbVars, lock, op, pc, sess, result, wrote, told>>

\* one line of the loop, inside "with stock_update_lock", up to the
\* low-stock test
AddOrderLine(r) ==
    /\ UNCHANGED restVars
    /\ pc[r] = "ao_loop"
    /\ loc[r].n < MaxLines
    /\ lock = 0
    /\ \E p \in Products, q \in Quantities \ {0} :
        IF p \notin pExists THEN
            /\ Rollback(r)
            /\ Finish(r, "missing")
            /\ loc' = [loc EXCEPT ![r].lines = Append(@, <<p, q>>)]
            /\ UNCHANGED <<pExists, nextOrderId, threshold, lock, op, told>>
        ELSE
            LET s1 == Load(sess[r], p)
                row == s1.rows[p]
            IN  IF Insufficient(row, q) THEN
                    /\ Rollback(r)
                    /\ Finish(r, "insufficient")
                    /\ loc' = [loc EXCEPT ![r].lines = Append(@, <<p, q>>)]
                    /\ UNCHANGED <<pExists, nextOrderId, threshold, lock, op, told>>
                ELSE
                    /\ sess' = [sess EXCEPT ![r] =
                                  AddStock(AddEntry(AddItem(s1, loc[r].oid, p, q, row.price),
                                                    p, -q, "order"), p, -q)]
                    /\ loc' = [loc EXCEPT ![r].n = @ + 1,
                                          ![r].total = @ + row.price * q,
                                          ![r].lines = Append(@, <<p, q>>)]
                    /\ IF row.stock - q < threshold
                          THEN /\ lock' = r
                               /\ pc' = [pc EXCEPT ![r] = "ao_notify"]
                          ELSE /\ lock' = lock
                               /\ pc' = pc
                    /\ UNCHANGED <<dbVars, op, result, wrote, told>>

\* utils.py create_notification, called inside the lock: it ends with
\* db.session.commit() on the request's own session
AddOrderNotify(r) ==
    /\ UNCHANGED restVars
    /\ pc[r] = "ao_notify"
    /\ Commit(r)
    /\ lock' = 0
    /\ pc' = [pc EXCEPT ![r] = "ao_loop"]
    /\ UNCHANGED <<pExists, nextOrderId, threshold, op, loc, result, told>>

\* after the loop: the total_amount test, and the commit
AddOrderCommit(r) ==
    /\ UNCHANGED restVars
    /\ pc[r] = "ao_loop"
    /\ IF loc[r].total = 0 THEN
          /\ Rollback(r)
          /\ Finish(r, "invalid")
          /\ UNCHANGED loc
       ELSE IF Flushable(SetTotal(sess[r], loc[r].oid, loc[r].total)) THEN
          /\ stock' = StockAfter(sess[r])
          /\ price' = PriceAfter(sess[r])
          /\ ledger' = ledger \o sess[r].entries
          /\ orders' = OrdersAfter(SetTotal(sess[r], loc[r].oid, loc[r].total))
          /\ orderItems' = ItemsAfter(sess[r])
          /\ wrote' = [wrote EXCEPT ![r] = TRUE]
          /\ sess' = [sess EXCEPT ![r] = EmptySession]
          /\ pc' = [pc EXCEPT ![r] = "ao_sync"]
          /\ loc' = [loc EXCEPT ![r].committed = TRUE]
          /\ UNCHANGED result
       ELSE
          /\ Rollback(r)
          /\ Finish(r, "error")
          /\ UNCHANGED loc
    /\ UNCHANGED <<pExists, nextOrderId, threshold, lock, op, told>>

\* after the commit: the Sheets mirror and the webhook, inside try/except
AddOrderSync(r) ==
    /\ UNCHANGED restVars
    /\ pc[r] = "ao_sync"
    /\ \E sh \in SheetsOutcomes, wh \in WebhookOutcomes :
        /\ told' = [told EXCEPT ![r] = Telling(r, sh, wh)]
        /\ Finish(r, IF sh = "synced" THEN "success" ELSE "warning")
    /\ UNCHANGED <<dbVars, lock, op, sess, loc, wrote>>

(* --------------------------- storefront_sale --------------------------- *)
\* routes.py storefront_sale, up to the loop: no login test, no lock; the
\* request may or may not carry a logged-in user_id
StorefrontStart(r) ==
    /\ UNCHANGED restVars
    /\ CanStart(r)
    /\ Begin(r, "storefront_sale")
    /\ nextOrderId' = nextOrderId + 1
    /\ sess' = [sess EXCEPT ![r] = NewOrder(@, nextOrderId)]
    /\ \E loggedIn \in BOOLEAN :
        loc' = [loc EXCEPT ![r].oid = nextOrderId, ![r].anon = ~loggedIn]
    /\ pc' = [pc EXCEPT ![r] = "ss_loop"]
    /\ UNCHANGED <<pExists, stock, price, ledger, orders, orderItems, threshold,
                   lock, result, wrote, told>>

\* one line of the loop: a line with quantity <= 0, a missing product or
\* too little stock is skipped ("continue"), any other line is booked
StorefrontLine(r) ==
    /\ UNCHANGED restVars
    /\ pc[r] = "ss_loop"
    /\ loc[r].n < MaxLines
    /\ \E p \in Products, q \in Quantities :
        LET s1 == Load(sess[r], p)
            row == s1.rows[p]
        IN  IF q = 0 THEN
                /\ loc' = [loc EXCEPT ![r].n = @ + 1]
                /\ UNCHANGED sess
            ELSE IF p \notin pExists THEN
                /\ loc' = [loc EXCEPT ![r].n = @ + 1, ![r].refused = TRUE]
                /\ UNCHANGED sess
            ELSE IF Insufficient(row, q) THEN
                /\ loc' = [loc EXCEPT ![r].n = @ + 1, ![r].refused = TRUE,
                                      ![r].lines = Append(@, <<p, q>>)]
                /\ sess' = [sess EXCEPT ![r] = s1]
            ELSE
                /\ sess' = [sess EXCEPT ![r] =
                              AddEntry(AddStock(AddItem(s1, loc[r].oid, p, q, row.price),
                                                p, -q), p, -q, "sale")]
                /\ loc' = [loc EXCEPT ![r].n = @ + 1,
                                      ![r].total = @ + row.price * q,
                                      ![r].lines = Append(@, <<p, q>>)]
    /\ UNCHANGED <<dbVars, lock, op, pc, result, wrote, told>>

\* order.total_amount = total_amount; db.session.commit()
StorefrontCommit(r) ==
    /\ UNCHANGED restVars
    /\ pc[r] = "ss_loop"
    /\ sess' = [sess EXCEPT ![r] = EmptySession]
    /\ stock' = StockAfter(sess[r])
    /\ price' = PriceAfter(sess[r])
    /\ ledger' = ledger \o sess[r].entries
    /\ orders' = OrdersAfter(SetTotal(sess[r], loc[r].oid, loc[r].total))
    /\ orderItems' = ItemsAfter(sess[r])
    /\ wrote' = [wrote EXCEPT ![r] = TRUE]
    /\ pc' = [pc EXCEPT ![r] = "ss_sync"]
    /\ loc' = [loc EXCEPT ![r].committed = TRUE]
    /\ UNCHANGED <<pExists, nextOrderId, threshold, lock, op, result, told>>

\* after the commit: the Sheets mirror and the webhook
StorefrontSync(r) ==
    /\ UNCHANGED restVars
    /\ pc[r] = "ss_sync"
    /\ \E sh \in SheetsOutcomes, wh \in WebhookOutcomes :
        /\ told' = [told EXCEPT ![r] = Telling(r, sh, wh)]
        /\ Finish(r, IF sh = "synced" THEN "success" ELSE "warning")
    /\ UNCHANGED <<dbVars, lock, op, sess, loc, wrote>>

(* ----------------------------- delete_order ---------------------------- *)
\* routes.py delete_order: Order.query.get_or_404(id) and the lazy load of
\* order.order_items; no login test, no lock
DeleteOrderStart(r) ==
    /\ UNCHANGED restVars
    /\ CanStart(r)
    /\ Begin(r, "delete_order")
    /\ \E id \in 1..NumReqs, loggedIn \in BOOLEAN :
        IF id \notin DOMAIN orders THEN
            /\ Finish(r, "notfound")
            /\ loc' = [loc EXCEPT ![r].anon = ~loggedIn]
        ELSE
            /\ loc' = [loc EXCEPT ![r].oid = id,
                                  ![r].anon = ~loggedIn,
                                  ![r].todo = SelectSeq(orderItems, LAMBDA it : it.order = id)]
            /\ pc' = [pc EXCEPT ![r] = "do_items"]
            /\ UNCHANGED result
    /\ UNCHANGED <<dbVars, lock, sess, wrote, told>>

\* a round of the loop that writes the ledger entry and leaves the stock
DeleteOrderItemUnrestored(r) ==
    /\ UNCHANGED restVars
    /\ pc[r] = "do_items"
    /\ loc[r].todo # <<>>
    /\ LET it == Head(loc[r].todo)
       IN  sess' = [sess EXCEPT ![r] =
                      IF it.product \in pExists
                      THEN AddEntry(Load(@, it.product), it.product, it.quantity, "deleted")
                      ELSE @]
    /\ loc' = [loc EXCEPT ![r].todo = Tail(@)]
    /\ UNCHANGED <<dbVars, lock, op, pc, result, wrote, told>>

\* one round of "for item in order.order_items"
DeleteOrderItem(r) ==
    /\ UNCHANGED restVars
    /\ pc[r] = "do_items"
    /\ loc[r].todo # <<>>
    /\ LET it == Head(loc[r].todo)
       IN  sess' = [sess EXCEPT ![r] =
                      IF it.product \in pExists
                      THEN AddEntry(AddStock(Load(@, it.product), it.product, it.quantity),
                                    it.product, it.quantity, "deleted")
                      ELSE @]
    /\ loc' = [loc EXCEPT ![r].todo = Tail(@)]
    /\ UNCHANGED <<dbVars, lock, op, pc, result, wrote, told>>

\* the Sheets mirror and the webhook, called before db.session.delete and
\* db.session.commit; a 403 or 400 makes _execute_sheets_api_call call
\* create_notification, which commits the request's session
DeleteOrderSync(r) ==
    /\ UNCHANGED restVars
    /\ pc[r] = "do_items"
    /\ loc[r].todo = <<>>
    /\ \E sh \in SheetsOutcomes, wh \in WebhookOutcomes :
        /\ told' = [told EXCEPT ![r] = Telling(r, sh, wh)]
        /\ loc' = [loc EXCEPT ![r].synced = (sh = "synced")]
        /\ IF sh = "denied"
              THEN Commit(r)
              ELSE UNCHANGED <<stock, price, ledger, orders, orderItems, wrote, sess>>
    /\ pc' = [pc EXCEPT ![r] = "do_commit"]
    /\ UNCHANGED <<pExists, nextOrderId, threshold, lock, op, result>>

\* db.session.delete(order); db.session.commit(), or the except branch
DeleteOrderCommit(r) ==
    /\ UNCHANGED restVars
    /\ pc[r] = "do_commit"
    /\ LET s1 == [sess[r] EXCEPT !.del = loc[r].oid]
       IN  IF Flushable(s1) THEN
               /\ stock' = StockAfter(s1)
               /\ price' = PriceAfter(s1)
               /\ ledger' = ledger \o s1.entries
               /\ orders' = OrdersAfter(s1)
               /\ orderItems' = ItemsAfter(s1)
               /\ wrote' = [wrote EXCEPT ![r] = TRUE]
               /\ sess' = [sess EXCEPT ![r] = EmptySession]
               /\ Finish(r, IF loc[r].synced THEN "success" ELSE "warning")
               /\ loc' = [loc EXCEPT ![r].committed = TRUE]
           ELSE
               /\ Rollback(r)
               /\ Finish(r, "error")
               /\ UNCHANGED loc
    /\ UNCHANGED <<pExists, nextOrderId, threshold, lock, op, told>>

(* ----------------------------- add_inventory --------------------------- *)
\* routes.py add_inventory up to the commit: the login test, the quantity
\* test, and the body of "with stock_update_lock" before db.session.commit
AddInventoryStart(r) ==
    /\ UNCHANGED restVars
    /\ CanStart(r)
    /\ Begin(r, "add_inventory")
    /\ \E loggedIn \in BOOLEAN, p \in Products, q \in Adjustments :
        IF ~loggedIn THEN
            /\ Finish(r, "login")
            /\ loc' = [loc EXCEPT ![r].anon = TRUE]
            /\ UNCHANGED <<lock, sess>>
        ELSE IF q <= 0 THEN
            /\ Finish(r, "invalid")
            /\ loc' = [loc EXCEPT ![r].lines = <<<<p, q>>>>]
            /\ UNCHANGED <<lock, sess>>
        ELSE
            /\ lock = 0
            /\ IF p \notin pExists THEN
                   /\ Finish(r, "notfound")
                   /\ UNCHANGED <<lock, sess, loc>>
               ELSE
                   /\ lock' = r
                   /\ sess' = [sess EXCEPT ![r] = AddStock(AddEntry(Load(@, p), p, q, "stock"), p, q)]
                   /\ loc' = [loc EXCEPT ![r].lines = <<<<p, q>>>>]
                   /\ pc' = [pc EXCEPT ![r] = "ai_commit"]
                   /\ UNCHANGED result
    /\ UNCHANGED <<dbVars, wrote, told>>

\* a commit inside the lock after which the lock stays taken
AddInventoryCommitHolding(r) ==
    /\ UNCHANGED restVars
    /\ pc[r] = "ai_commit"
    /\ Commit(r)
    /\ lock' = lock
    /\ Finish(r, "success")
    /\ UNCHANGED <<pExists, nextOrderId, threshold, op, loc, told>>

\* db.session.commit() inside the lock, then the lock is released
AddInventoryCommit(r) ==
    /\ UNCHANGED restVars
    /\ pc[r] = "ai_commit"
    /\ Commit(r)
    /\ lock' = 0
    /\ Finish(r, "success")
    /\ loc' = [loc EXCEPT ![r].committed = TRUE]
    /\ UNCHANGED <<pExists, nextOrderId, threshold, op, told>>

(* ------------------------ add_product, edit_product -------------------- *)
\* create_n8n_webhook_data divides by float(product_data.get('price', 1))
WebhookDataRaises(pr) == pr = 0

\* the id the store gives the next product row
NewProductId == CHOOSE p \in Products \ pExists : \A x \in Products \ pExists : p <= x

\* the row of a new product is inserted and committed
InsertProduct(p, s, pr) ==
    /\ pExists' = pExists \cup {p}
    /\ stock' = [stock EXCEPT ![p] = s]
    /\ price' = [price EXCEPT ![p] = pr]
    /\ UNCHANGED <<ledger, orders, orderItems, nextOrderId, threshold>>

\* routes.py add_product up to db.session.commit()
AddProduct(r) ==
    /\ UNCHANGED restVars
    /\ CanStart(r)
    /\ Begin(r, "add_product")
    /\ Products \ pExists # {}
    /\ \E loggedIn \in BOOLEAN, s \in 0..MaxStock, pr \in Prices :
        IF ~loggedIn THEN
            /\ Finish(r, "login")
            /\ loc' = [loc EXCEPT ![r].anon = TRUE]
            /\ UNCHANGED <<dbVars, wrote>>
        ELSE
            /\ InsertProduct(NewProductId, s, pr)
            /\ loc' = [loc EXCEPT ![r].price = pr, ![r].committed = TRUE]
            /\ wrote' = [wrote EXCEPT ![r] = TRUE]
            /\ pc' = [pc EXCEPT ![r] = "p_sync"]
            /\ UNCHANGED result
    /\ UNCHANGED <<lock, sess, told>>

\* routes.py edit_product up to db.session.commit(): the form's price and
\* stock are assigned to the product
EditProduct(r) ==
    /\ UNCHANGED restVars
    /\ CanStart(r)
    /\ Begin(r, "edit_product")
    /\ \E loggedIn \in BOOLEAN, p \in Products, s \in 0..MaxStock, pr \in Prices :
        IF ~loggedIn THEN
            /\ Finish(r, "login")
            /\ loc' = [loc EXCEPT ![r].anon = TRUE]
            /\ UNCHANGED <<dbVars, wrote>>
        ELSE IF p \notin pExists THEN
            /\ Finish(r, "notfound")
            /\ UNCHANGED <<dbVars, loc, wrote>>
        ELSE
            /\ stock' = [stock EXCEPT ![p] = s]
            /\ price' = [price EXCEPT ![p] = pr]
            /\ loc' = [loc EXCEPT ![r].price = pr, ![r].committed = TRUE]
            /\ wrote' = [wrote EXCEPT ![r] = TRUE]
            /\ pc' = [pc EXCEPT ![r] = "p_sync"]
            /\ UNCHANGED <<pExists, ledger, orders, orderItems, nextOrderId, threshold, result>>
    /\ UNCHANGED <<lock, sess, told>>

\* add_product and edit_product after the commit: the Sheets mirror,
\* create_n8n_webhook_data and send_to_n8n_webhook, outside any try/except
ProductSync(r) ==
    /\ UNCHANGED restVars
    /\ pc[r] = "p_sync"
    /\ \E sh \in SheetsOutcomes, wh \in WebhookOutcomes :
        IF WebhookDataRaises(loc[r].price) THEN
            /\ told' = [told EXCEPT ![r] = Telling(r, sh, "off")]
            /\ Finish(r, "raised")
        ELSE
            /\ told' = [told EXCEPT ![r] = Telling(r, sh, wh)]
            /\ Finish(r, "success")
    /\ UNCHANGED <<dbVars, lock, op, sess, loc, wrote>>

\* routes.py api_add_product: the Sheets mirror follows the commit and no
\* webhook payload is built
ApiAddProduct(r) ==
    /\ UNCHANGED restVars
    /\ CanStart(r)
    /\ Begin(r, "api_add_product")
    /\ Products \ pExists # {}
    /\ \E key \in BOOLEAN, s \in 0..MaxStock, pr \in Prices, sh \in SheetsOutcomes :
        IF ~key THEN
            /\ Finish(r, "unauthorized")
            /\ UNCHANGED <<dbVars, wrote, told>>
        ELSE
            /\ InsertProduct(NewProductId, s, pr)
            /\ wrote' = [wrote EXCEPT ![r] = TRUE]
            /\ told' = [told EXCEPT ![r] = Telling(r, sh, "off")]
            /\ Finish(r, "success")
    /\ UNCHANGED <<lock, sess, loc>>

\* routes.py api_update_product: the fields present in the JSON body are
\* assigned, then committed; the Sheets mirror follows the commit
ApiUpdateProduct(r) ==
    /\ UNCHANGED restVars
    /\ CanStart(r)
    /\ Begin(r, "api_update_product")
    /\ \E key \in BOOLEAN, p \in Products, hasStock \in BOOLEAN, s \in 0..MaxStock,
          hasPrice \in BOOLEAN, pr \in Prices, sh \in SheetsOutcomes :
        IF ~key THEN
            /\ Finish(r, "unauthorized")
            /\ UNCHANGED <<dbVars, wrote, told>>
        ELSE IF p \notin pExists THEN
            /\ Finish(r, "notfound")
            /\ UNCHANGED <<dbVars, wrote, told>>
        ELSE
            /\ stock' = [stock EXCEPT ![p] = IF hasStock THEN s ELSE @]
            /\ price' = [price EXCEPT ![p] = IF hasPrice THEN pr ELSE @]
            /\ wrote' = [wrote EXCEPT ![r] = @ \/ hasStock \/ hasPrice]
            /\ told' = [told EXCEPT ![r] = Telling(r, sh, "off")]
            /\ Finish(r, "success")
            /\ UNCHANGED <<pExists, ledger, orders, orderItems, nextOrderId, threshold>>
    /\ UNCHANGED <<lock, sess, loc>>

Next ==
    \E r \in Reqs :
        \/ AddOrderStart(r)
        \/ AddOrderSkipLine(r)
        \/ AddOrderLine(r)
        \/ AddOrderNotify(r)
        \/ AddOrderCommit(r)
        \/ AddOrderSync(r)
        \/ StorefrontStart(r)
        \/ StorefrontLine(r)
        \/ StorefrontCommit(r)
        \/ StorefrontSync(r)
        \/ DeleteOrderStart(r)
        \/ DeleteOrderItem(r)
        \/ DeleteOrderSync(r)
        \/ DeleteOrderCommit(r)
        \/ AddInventoryStart(r)
        \/ AddInventoryCommit(r)
        \/ AddProduct(r)
        \/ EditProduct(r)
        \/ ProductSync(r)
        \/ ApiAddProduct(r)
        \/ ApiUpdateProduct(r)

Spec == Init /\ [][Next]_vars

(* ------------------- delete_order and add_order in sequence ------------ *)
\* no other request is between its first and its last step
Alone(r) == \A x \in Reqs \ {r} : pc[x] \in {"new", "done"}

\* delete_order and add_order requests, each served from start to end
\* before the next one starts
NextSerial ==
    \E r \in Reqs :
        \/ Alone(r) /\ DeleteOrderStart(r)
        \/ Alone(r) /\ DeleteOrderItem(r)
        \/ Alone(r) /\ DeleteOrderSync(r)
        \/ Alone(r) /\ DeleteOrderCommit(r)
        \/ Alone(r) /\ AddOrderStart(r)
        \/ Alone(r) /\ AddOrderSkipLine(r)
        \/ Alone(r) /\ AddOrderLine(r)
        \/ Alone(r) /\ AddOrderNotify(r)
        \/ Alone(r) /\ AddOrderCommit(r)
        \/ Alone(r) /\ AddOrderSync(r)

SpecSerial == Init /\ [][NextSerial]_vars

(* --------------- the handlers that take stock_update_lock -------------- *)
\* add_order and add_inventory requests, in any interleaving
NextLock ==
    \E r \in Reqs :
        \/ AddOrderStart(r)
        \/ AddOrderSkipLine(r)
        \/ AddOrderLine(r)
        \/ AddOrderNotify(r)
        \/ AddOrderCommit(r)
        \/ AddOrderSync(r)
        \/ AddInventoryStart(r)
        \/ AddInventoryCommit(r)

\* a thread inside "with stock_update_lock" keeps being scheduled
SpecLock ==
    /\ Init
    /\ [][NextLock]_vars
    /\ \A r \in Reqs : WF_vars(AddOrderNotify(r)) /\ WF_vars(AddInventoryCommit(r))

(* ------------------- circuit breaker of the Sheets client -------------- *)
\* update_google_sheets_status(True) without "error_count = 0"
StatusAfterSuccessKeepsCount(st) ==
    LET s1 == [st EXCEPT !.last_success = "recorded", !.last_error = "none"]
    IN  IF ~s1.enabled /\ s1.error_count = 0 THEN [s1 EXCEPT !.enabled = TRUE] ELSE s1

\* update_google_sheets_status(True) without "last_error = None"
StatusAfterSuccessKeepsError(st) ==
    LET s1 == [st EXCEPT !.last_success = "recorded", !.error_count = 0]
    IN  IF ~s1.enabled /\ s1.error_count = 0 THEN [s1 EXCEPT !.enabled = TRUE] ELSE s1

\* update_google_sheets_status(True)
StatusAfterSuccess(st) ==
    LET s1 == [st EXCEPT !.last_success = "recorded", !.error_count = 0, !.last_error = "none"]
    IN  IF ~s1.enabled /\ s1.error_count = 0 THEN [s1 EXCEPT !.enabled = TRUE] ELSE s1

\* update_google_sheets_status(False, error_message) that disables one
\* failure later
StatusAfterFailureLate(st, msg) ==
    LET s1 == [st EXCEPT !.error_count = @ + 1, !.last_error = msg]
    IN  IF s1.error_count >= ErrorThreshold + 1 THEN [s1 EXCEPT !.enabled = FALSE] ELSE s1

\* update_google_sheets_status(False, error_message)
StatusAfterFailure(st, msg) ==
    LET s1 == [st EXCEPT !.error_count = @ + 1, !.last_error = msg]
    IN  IF s1.error_count >= ErrorThreshold THEN [s1 EXCEPT !.enabled = FALSE] ELSE s1

\* the branches of _execute_sheets_api_call that follow a failed execute():
\* HttpError 403 or 400 (create_notification is called too), another
\* HttpError, another exception
ExecFailures == {"permission", "http", "unexpected"}

\* the step is no webhook call and no failure that goes unreported
Quiet == missed' = "none" /\ hook' = NoCall

\* the step is a failure of the given kind, made while 'enabled' is True,
\* after which the function returns with no update_google_sheets_status
Unreported(kind) ==
    /\ missed' = IF status.enabled THEN kind ELSE "none"
    /\ UNCHANGED <<status, consec, failsBefore, lastReport>>

\* a call of update_google_sheets_status(True) by a client thread
ReportSuccess ==
    /\ Quiet
    /\ status' = StatusAfterSuccess(status)
    /\ failsBefore' = consec
    /\ consec' = 0
    /\ lastReport' = "success"

\* a call of update_google_sheets_status(False, msg) by a client thread
ReportFailure(msg) ==
    /\ Quiet
    /\ status.error_count < MaxErrors
    /\ status' = StatusAfterFailure(status, msg)
    /\ consec' = consec + 1
    /\ lastReport' = "failure"
    /\ UNCHANGED failsBefore

NoReport == UNCHANGED <<status, consec, failsBefore, lastReport>>

\* the running Sheets function returns to its caller
PopFrame(c) ==
    /\ depth' = [depth EXCEPT ![c] = @ - 1]
    /\ cpc' = [cpc EXCEPT ![c] = IF depth[c] = 1 THEN "idle" ELSE "body"]
    /\ ncalls' = [ncalls EXCEPT ![c] = IF depth[c] = 1 THEN 0 ELSE @]

\* The first statement of setup_google_sheets_structure,
\* sync_all_products_to_google_sheets, add_product_to_google_sheets_realtime,
\* update_main_products_sheet and update_stock_in_google_sheets_for_order,
\* called by a handler or by another of these functions:
\* "if not GOOGLE_SHEETS_STATUS['enabled']: return False"
SheetsFunctionEnter(c) ==
    /\ cpc[c] \in {"idle", "body"}
    /\ depth[c] < MaxDepth
    /\ IF status.enabled
          THEN /\ depth' = [depth EXCEPT ![c] = @ + 1]
               /\ cpc' = [cpc EXCEPT ![c] = "service"]
          ELSE UNCHANGED <<depth, cpc>>
    /\ NoReport
    /\ Quiet
    /\ UNCHANGED <<ncalls, sawEnabled, contactedOpen, storeVars>>

\* get_google_sheets_service, called by a Sheets function: no configuration
\* (returns None), an exception while the credentials are loaded or the
\* service is built (counted as a failure), or a service
GetSheetsService(c) ==
    /\ cpc[c] = "service"
    /\ \E o \in {"ok", "noconfig", "error"} :
        \/ /\ o = "ok"
           /\ cpc' = [cpc EXCEPT ![c] = "body"]
           /\ NoReport
           /\ Quiet
           /\ UNCHANGED <<depth, ncalls>>
        \/ /\ o = "noconfig"
           /\ PopFrame(c)
           /\ Unreported("config")
           /\ hook' = NoCall
        \/ /\ o = "error"
           /\ ReportFailure("service")
           /\ PopFrame(c)
    /\ UNCHANGED <<sawEnabled, contactedOpen, storeVars>>

\* get_or_create_sheet: service.spreadsheets().get(...).execute() is called
\* directly; an exception makes the function return False
GetOrCreateSheet(c) ==
    /\ cpc[c] = "body"
    /\ contactedOpen' = (contactedOpen \/ ~status.enabled)
    /\ \E ok \in BOOLEAN :
        IF ok THEN /\ UNCHANGED <<depth, cpc, ncalls>>
                   /\ NoReport
                   /\ Quiet
              ELSE /\ PopFrame(c)
                   /\ Unreported("metadata")
                   /\ hook' = NoCall
    /\ UNCHANGED <<sawEnabled, storeVars>>

\* _execute_sheets_api_call up to "try": the test of 'enabled' and
\* check_google_sheets_config
ExecuteSheetsApiCallBegin(c) ==
    /\ cpc[c] = "body"
    /\ ncalls[c] < MaxCalls
    /\ sawEnabled' = [sawEnabled EXCEPT ![c] = status.enabled]
    /\ IF ~status.enabled THEN
          /\ ncalls' = [ncalls EXCEPT ![c] = @ + 1]
          /\ NoReport
          /\ Quiet
          /\ UNCHANGED cpc
       ELSE \E configOk \in BOOLEAN :
          IF configOk THEN
              /\ cpc' = [cpc EXCEPT ![c] = "exec"]
              /\ NoReport
              /\ Quiet
              /\ UNCHANGED ncalls
          ELSE
              /\ ReportFailure("config")
              /\ ncalls' = [ncalls EXCEPT ![c] = @ + 1]
              /\ UNCHANGED cpc
    /\ UNCHANGED <<depth, contactedOpen, storeVars>>

\* _execute_sheets_api_call from "try": api_call.execute() and the report
ExecuteSheetsApiCallRun(c) ==
    /\ cpc[c] = "exec"
    /\ contactedOpen' = (contactedOpen \/ ~status.enabled)
    /\ \E o \in {"ok"} \cup ExecFailures :
        IF o = "ok" THEN ReportSuccess ELSE ReportFailure(o)
    /\ cpc' = [cpc EXCEPT ![c] = "body"]
    /\ ncalls' = [ncalls EXCEPT ![c] = @ + 1]
    /\ UNCHANGED <<depth, sawEnabled, storeVars>>

\* a "return" of the running Sheets function
SheetsFunctionReturn(c) ==
    /\ cpc[c] = "body"
    /\ PopFrame(c)
    /\ NoReport
    /\ Quiet
    /\ UNCHANGED <<sawEnabled, contactedOpen, storeVars>>

\* test_google_sheets_connection up to "Try to access spreadsheet": no test
\* of 'enabled'; check_google_sheets_config and get_google_sheets_service
TestConnectionBegin(c) ==
    /\ cpc[c] = "idle"
    /\ \E o \in {"ok", "noconfig", "error"} :
        \/ /\ o = "ok"
           /\ cpc' = [cpc EXCEPT ![c] = "test"]
           /\ NoReport
           /\ Quiet
        \/ /\ o = "noconfig"
           /\ NoReport
           /\ Quiet
           /\ UNCHANGED cpc
        \/ /\ o = "error"
           /\ ReportFailure("service")
           /\ UNCHANGED cpc
    /\ UNCHANGED <<depth, ncalls, sawEnabled, contactedOpen, storeVars>>

\* test_google_sheets_connection: the direct execute() of the metadata
\* request, update_google_sheets_status(True) when it succeeds, nothing
\* reported when it raises
TestConnectionRun(c) ==
    /\ cpc[c] = "test"
    /\ contactedOpen' = (contactedOpen \/ ~status.enabled)
    /\ \E ok \in BOOLEAN :
        IF ok THEN ReportSuccess ELSE NoReport /\ Quiet
    /\ cpc' = [cpc EXCEPT ![c] = "idle"]
    /\ UNCHANGED <<depth, ncalls, sawEnabled, storeVars>>

\* reset_google_sheets_integration
ResetIntegration(c) ==
    /\ cpc[c] = "idle"
    /\ status' = InitialStatus
    /\ consec' = 0
    /\ lastReport' = "reset"
    /\ Quiet
    /\ UNCHANGED <<failsBefore, depth, cpc, ncalls, sawEnabled, contactedOpen, storeVars>>

\* what the POST of send_to_n8n_webhook meets: no N8N_WEBHOOK_URL (no
\* POST is made), a response with a status code, or an exception
\* (timeout, connection error)
WebhookReplies == {"no_url", "200", "201", "204", "404", "500", "timeout", "connection_error"}

\* the replies whose status code is in the 2xx class
SuccessClass == {"200", "201", "204"}

\* the value send_to_n8n_webhook returns
WebhookReturns(reply) == reply = "200"

\* send_to_n8n_webhook, called by a handler; it never touches
\* GOOGLE_SHEETS_STATUS
SendToN8nWebhook(c) ==
    /\ cpc[c] = "idle"
    /\ \E reply \in WebhookReplies :
        /\ hook' = [reply |-> reply, ret |-> WebhookReturns(reply)]
        /\ IF reply \in {"no_url"} \cup SuccessClass
              THEN NoReport /\ missed' = "none"
              ELSE Unreported("webhook")
    /\ UNCHANGED <<depth, cpc, ncalls, sawEnabled, contactedOpen, storeVars>>

\* the store of the first initial state, with no request in progress
InitSheets ==
    /\ Init
    /\ threshold = LowStockDefault
    /\ opening = [stock |-> 0, sold |-> 0]

NextSheets ==
    \E c \in Clients :
        \/ SheetsFunctionEnter(c)
        \/ GetSheetsService(c)
        \/ GetOrCreateSheet(c)
        \/ ExecuteSheetsApiCallBegin(c)
        \/ ExecuteSheetsApiCallRun(c)
        \/ SheetsFunctionReturn(c)
        \/ TestConnectionBegin(c)
        \/ TestConnectionRun(c)
        \/ ResetIntegration(c)
        \/ SendToN8nWebhook(c)

SpecSheets == InitSheets /\ [][NextSheets]_vars

(* ---------- the statements of update_google_sheets_status(False) ------- *)
\* a thread enters update_google_sheets_status(False, error_message)
UpdateStatusBegin(c) ==
    /\ reporter[c].pc = "idle"
    /\ reports < MaxReports
    /\ reports' = reports + 1
    /\ reporter' = [reporter EXCEPT ![c].pc = "read"]
    /\ UNCHANGED <<dbVars, reqVars, opening, mirrorVars, sheetVars>>

\* "error_count += 1": the load of GOOGLE_SHEETS_STATUS['error_count']
UpdateStatusRead(c) ==
    /\ reporter[c].pc = "read"
    /\ reporter' = [reporter EXCEPT ![c] = [pc |-> "write", count |-> status.error_count]]
    /\ UNCHANGED <<dbVars, reqVars, opening, mirrorVars, sheetVars, reports>>

\* "error_count += 1": the store of the loaded value plus one
UpdateStatusWrite(c) ==
    /\ reporter[c].pc = "write"
    /\ status' = [status EXCEPT !.error_count = reporter[c].count + 1]
    /\ reporter' = [reporter EXCEPT ![c] = [pc |-> "message", count |-> 0]]
    /\ UNCHANGED <<dbVars, reqVars, opening, mirrorVars, reports, depth, cpc, ncalls, sawEnabled,
                   consec, failsBefore, lastReport, contactedOpen, missed, hook>>

\* GOOGLE_SHEETS_STATUS['last_error'] = error_message
UpdateStatusMessage(c) ==
    /\ reporter[c].pc = "message"
    /\ status' = [status EXCEPT !.last_error = "http"]
    /\ reporter' = [reporter EXCEPT ![c].pc = "compare"]
    /\ UNCHANGED <<dbVars, reqVars, opening, mirrorVars, reports, depth, cpc, ncalls, sawEnabled,
                   consec, failsBefore, lastReport, contactedOpen, missed, hook>>

\* "if error_count >= 3: enabled = False", and the return
UpdateStatusCompare(c) ==
    /\ reporter[c].pc = "compare"
    /\ status' = IF status.error_count >= ErrorThreshold
                 THEN [status EXCEPT !.enabled = FALSE] ELSE status
    /\ reporter' = [reporter EXCEPT ![c].pc = "idle"]
    /\ UNCHANGED <<dbVars, reqVars, opening, mirrorVars, reports, depth, cpc, ncalls, sawEnabled,
                   consec, failsBefore, lastReport, contactedOpen, missed, hook>>

\* threads that report failed calls, statement by statement
NextStatus ==
    \E c \in Clients :
        \/ UpdateStatusBegin(c)
        \/ UpdateStatusRead(c)
        \/ UpdateStatusWrite(c)
        \/ UpdateStatusMessage(c)
        \/ UpdateStatusCompare(c)

SpecStatus == InitSheets /\ [][NextStatus]_vars

(* ------------------ the product mirror in the spreadsheet -------------- *)
\* what the functions of the product mirror leave alone
MirrorFrame ==
    UNCHANGED <<dbVars, reqVars, opening, reporter, reports, depth, cpc, ncalls,
                sawEnabled, contactedOpen>>

\* _execute_sheets_api_call makes the call only while 'enabled' is True;
\* ok says whether the call, if made, is answered without an error
Executes(ok) == status.enabled /\ ok

\* _execute_sheets_api_call: nothing is reported for a skipped call, a
\* success or a failure for a call that was made
Account(ok) ==
    IF ~status.enabled THEN NoReport /\ Quiet
    ELSE IF ok THEN ReportSuccess
    ELSE ReportFailure("http")

\* the sheet that get_or_create_sheet and the header test are about
SheetAt(pos) ==
    IF pos \in {"s_meta", "s_create", "s_get", "s_put"} THEN "Products" ELSE "Current_Inventory"

\* the thread is inside setup_google_sheets_structure
InSetup(c) == mirror[c].pc \in {"s_meta", "s_create", "s_get", "s_put"}

Goto(c, pos) == mirror' = [mirror EXCEPT ![c].pc = pos]

\* the entry function returns val to its caller
Return(c, val) ==
    mirror' = [mirror EXCEPT ![c] = [@ EXCEPT !.pc = "idle", !.ret = val, !.row = 0,
                                              !.calls = @ + 1]]

\* setup_google_sheets_structure returns val: to the admin route, or to
\* add_product_to_google_sheets_realtime, which returns False on False
SetupDone(c, val) ==
    IF val /\ mirror[c].fn = "realtime" THEN Goto(c, "r_append") ELSE Return(c, val)

\* the running function returns val; add_product_to_google_sheets_realtime
\* ignores what update_main_products_sheet returns and returns True
Leave(c, val) ==
    IF InSetup(c) THEN SetupDone(c, val) ELSE Return(c, TRUE)

\* a header test that finds no header row in any answer
HeadersMissingAlways(res) == TRUE

\* "if not result or not existing_values or not existing_values[0]"
HeadersMissing(res) == res \in {"none", "empty"}

\* the row_index loop of update_main_products_sheet: the first data row
\* whose first cell is the product id, 0 for None
FirstRow(rows, id) ==
    LET S == {i \in 1..Len(rows) : rows[i].id = id}
    IN  IF S = {} THEN 0 ELSE CHOOSE i \in S : \A j \in S : i <= j

\* the tests at the head of a mirror function: 'enabled', and
\* get_google_sheets_service
EnterMirror(c, f, pp, vv) ==
    /\ mirror[c].pc = "idle"
    /\ mirror[c].calls < MaxMirrorCalls
    /\ \E service \in BOOLEAN :
        LET pass == status.enabled /\ service
            m1 == [NoMirror EXCEPT !.fn = f, !.p = pp, !.v = vv, !.calls = mirror[c].calls]
        IN  /\ mirror' = [mirror EXCEPT ![c] = IF pass THEN [m1 EXCEPT !.pc = "s_meta"]
                                                       ELSE [m1 EXCEPT !.calls = @ + 1]]
            /\ clean' = (clean /\ pass /\ \A x \in Clients \ {c} : mirror[x].pc = "idle")
            /\ IF status.enabled /\ ~service
                  THEN Unreported("config") /\ hook' = NoCall
                  ELSE NoReport /\ Quiet
    /\ UNCHANGED spreadsheet
    /\ MirrorFrame

\* setup_google_sheets_structure called by the admin route
SetupStructureBegin(c) ==
    /\ mirror[c].pc = "idle"
    /\ EnterMirror(c, "setup", 0, 0)

\* add_product_to_google_sheets_realtime called with a product snapshot
AddProductRealtimeBegin(c) ==
    /\ mirror[c].pc = "idle"
    /\ \E pp \in Products, vv \in Snapshots : EnterMirror(c, "realtime", pp, vv)

\* get_or_create_sheet: the metadata lookup, made directly; for
\* Current_Inventory preceded by the 'enabled' test of
\* update_main_products_sheet
MirrorSheetLookup(c) ==
    /\ mirror[c].pc \in {"s_meta", "m_meta"}
    /\ \E ok \in BOOLEAN :
        IF mirror[c].pc = "m_meta" /\ ~status.enabled THEN
            /\ Leave(c, FALSE)
            /\ clean' = FALSE
            /\ NoReport /\ Quiet
        ELSE IF ~ok THEN
            /\ Leave(c, FALSE)
            /\ clean' = FALSE
            /\ Unreported("metadata") /\ hook' = NoCall
        ELSE
            /\ Goto(c, IF SheetAt(mirror[c].pc) \in spreadsheet.sheets
                       THEN (IF InSetup(c) THEN "s_get" ELSE "m_hget")
                       ELSE (IF InSetup(c) THEN "s_create" ELSE "m_create"))
            /\ UNCHANGED clean
            /\ NoReport /\ Quiet
    /\ UNCHANGED spreadsheet
    /\ MirrorFrame

\* get_or_create_sheet: the addSheet request; the service refuses a title
\* that exists
MirrorSheetCreate(c) ==
    /\ mirror[c].pc \in {"s_create", "m_create"}
    /\ \E ok \in BOOLEAN :
        LET name == SheetAt(mirror[c].pc)
            fine == ok /\ name \notin spreadsheet.sheets
        IN  /\ Account(fine)
            /\ IF Executes(fine) THEN
                  /\ spreadsheet' = [spreadsheet EXCEPT !.sheets = @ \cup {name}]
                  /\ Goto(c, IF InSetup(c) THEN "s_get" ELSE "m_hget")
                  /\ UNCHANGED clean
               ELSE
                  /\ Leave(c, FALSE)
                  /\ clean' = FALSE
                  /\ UNCHANGED spreadsheet
    /\ MirrorFrame

\* the read of the header range and the test of what it returned
MirrorHeaderGet(c) ==
    /\ mirror[c].pc \in {"s_get", "m_hget"}
    /\ \E ok \in BOOLEAN :
        LET has == IF InSetup(c) THEN spreadsheet.header ELSE spreadsheet.invHeader
            res == IF ~Executes(ok) THEN "none" ELSE IF has THEN "full" ELSE "empty"
        IN  /\ Account(ok)
            /\ clean' = (clean /\ Executes(ok))
            /\ IF HeadersMissing(res) THEN Goto(c, IF InSetup(c) THEN "s_put" ELSE "m_hput")
               ELSE IF InSetup(c) THEN SetupDone(c, TRUE)
               ELSE Goto(c, "m_get")
    /\ UNCHANGED spreadsheet
    /\ MirrorFrame

\* the write of the header row
MirrorHeaderPut(c) ==
    /\ mirror[c].pc \in {"s_put", "m_hput"}
    /\ \E ok \in BOOLEAN :
        /\ Account(ok)
        /\ IF Executes(ok) THEN
              /\ spreadsheet' = IF InSetup(c) THEN [spreadsheet EXCEPT !.header = TRUE]
                                ELSE [spreadsheet EXCEPT !.invHeader = TRUE]
              /\ IF InSetup(c) THEN SetupDone(c, TRUE) ELSE Goto(c, "m_get")
              /\ UNCHANGED clean
           ELSE
              /\ Leave(c, FALSE)
              /\ clean' = FALSE
              /\ UNCHANGED spreadsheet
    /\ MirrorFrame

\* add_product_to_google_sheets_realtime: the append of the change-log row
\* to sheet Products, and the call of update_main_products_sheet
RealtimeAppend(c) ==
    /\ mirror[c].pc = "r_append"
    /\ \E ok \in BOOLEAN :
        /\ Account(ok)
        /\ IF Executes(ok) THEN
              /\ spreadsheet' = [spreadsheet EXCEPT !.log = @ + 1]
              /\ Goto(c, "m_meta")
              /\ UNCHANGED clean
           ELSE
              /\ Return(c, FALSE)
              /\ clean' = FALSE
              /\ UNCHANGED spreadsheet
    /\ MirrorFrame

\* update_main_products_sheet: the read of Current_Inventory!A:L and the
\* search for the product's row; a failed read gives an empty list
InventoryGet(c) ==
    /\ mirror[c].pc = "m_get"
    /\ \E ok \in BOOLEAN :
        /\ Account(ok)
        /\ clean' = (clean /\ Executes(ok))
        /\ mirror' = [mirror EXCEPT ![c].pc = "m_write",
                                    ![c].row = IF Executes(ok)
                                               THEN FirstRow(spreadsheet.inventory, mirror[c].p)
                                               ELSE 0]
    /\ UNCHANGED spreadsheet
    /\ MirrorFrame

\* update_main_products_sheet: the update of the row found, or the append
\* of a new row; the function returns True whatever the call returns
InventoryWrite(c) ==
    /\ mirror[c].pc = "m_write"
    /\ mirror[c].row = 0 => Len(spreadsheet.inventory) < MaxRows
    /\ \E ok \in BOOLEAN :
        LET new == [id |-> mirror[c].p, val |-> mirror[c].v]
        IN  /\ Account(ok)
            /\ clean' = (clean /\ Executes(ok))
            /\ spreadsheet' =
                  IF ~Executes(ok) THEN spreadsheet
                  ELSE IF mirror[c].row # 0
                  THEN [spreadsheet EXCEPT !.inventory[mirror[c].row] = new]
                  ELSE [spreadsheet EXCEPT !.inventory = Append(@, new)]
            /\ mirror' = [mirror EXCEPT ![c] = [@ EXCEPT !.pc = "idle", !.ret = TRUE, !.row = 0,
                                                        !.upserted = Executes(ok),
                                                        !.calls = @ + 1]]
    /\ MirrorFrame

\* threads that mirror products and set the spreadsheet up, call by call
NextMirror ==
    \E c \in Clients :
        \/ SetupStructureBegin(c)
        \/ AddProductRealtimeBegin(c)
        \/ MirrorSheetLookup(c)
        \/ MirrorSheetCreate(c)
        \/ MirrorHeaderGet(c)
        \/ MirrorHeaderPut(c)
        \/ RealtimeAppend(c)
        \/ InventoryGet(c)
        \/ InventoryWrite(c)

SpecMirror == InitSheets /\ [][NextMirror]_vars

(* =============================== claims ================================ *)

(* -------- serial execution of the stock handlers on product 1 --------- *)
\* st = [stock |-> Product.stock of product 1, has1 |-> order 1 exists]

\* the lines of a storefront_sale run one after another on its own
RECURSIVE SerialSale(_, _)
SerialSale(lines, n) ==
    IF lines = <<>> THEN n
    ELSE LET q == Head(lines)[2]
         IN  SerialSale(Tail(lines), IF n >= q THEN n - q ELSE n)

\* what request r, run alone from state st, leaves behind
SerialEffect(r, st) ==
    IF op[r] = "add_order" THEN
        IF loc[r].lines # <<>> /\ st.stock >= loc[r].lines[1][2]
        THEN [st EXCEPT !.stock = @ - loc[r].lines[1][2]] ELSE st
    ELSE IF op[r] = "storefront_sale" THEN
        [st EXCEPT !.stock = SerialSale(loc[r].lines, @)]
    ELSE IF op[r] = "add_inventory" THEN
        IF loc[r].lines # <<>> /\ loc[r].lines[1][2] > 0
        THEN [st EXCEPT !.stock = @ + loc[r].lines[1][2]] ELSE st
    ELSE \* delete_order of order 1, whose one item is one unit of product 1
        IF st.has1 THEN [stock |-> st.stock + 1, has1 |-> FALSE] ELSE st

\* the stocks that the serial orders of the requests in S produce from st
RECURSIVE SerialStocks(_, _)
SerialStocks(S, st) ==
    IF S = {} THEN {st.stock}
    ELSE UNION {SerialStocks(S \ {r}, SerialEffect(r, st)) : r \in S}

\* the units of product 1 that the successful add_order requests sold
RECURSIVE SoldUnits(_)
SoldUnits(S) ==
    IF S = {} THEN 0
    ELSE LET r == CHOOSE x \in S : TRUE
         IN  (IF result[r] \in {"success", "warning"} THEN loc[r].lines[1][2] ELSE 0)
             + SoldUnits(S \ {r})

\* every request has finished
AllDone == \A r \in Reqs : pc[r] = "done"

\* C1: for every product the signed quantities of its ledger entries sum to
\* its stock, i.e. no operation changes Product.stock without writing the
\* ledger entry of the same delta.
ReconciliationInvariant == \A p \in pExists : LedgerSum(p) = stock[p]

\* C2: an add_order that ends because a line names a missing product or asks
\* for more than the stock has committed nothing: no order, no item, no
\* ledger entry, no stock change.
AddOrderAllOrNothing ==
    \A r \in Reqs :
        (op[r] = "add_order" /\ pc[r] = "done" /\ result[r] \in {"missing", "insufficient"})
            => ~wrote[r]

\* C3: when concurrent add_order requests, each with one line for product 1,
\* have all finished, the successful ones sold no more than the initial
\* stock, and the stock is the initial stock minus what they sold.
NoOversell ==
    (/\ AllDone
     /\ \A r \in Reqs : /\ op[r] = "add_order"
                        /\ Len(loc[r].lines) = 1
                        /\ loc[r].lines[1][1] = 1)
        => /\ SoldUnits(Reqs) <= opening.stock
           /\ stock[1] = opening.stock - SoldUnits(Reqs)
           /\ stock[1] >= 0

\* C4: when concurrent add_order, add_inventory, delete_order and
\* storefront_sale requests on product 1 have all finished, the stock of
\* product 1 is the stock that some serial order of the same requests
\* produces.
StockSerializable ==
    (/\ AllDone
     /\ \A r \in Reqs :
           /\ op[r] \in {"add_order", "add_inventory", "delete_order", "storefront_sale"}
           /\ \A i \in 1..Len(loc[r].lines) : loc[r].lines[i][1] = 1
           /\ op[r] = "add_order" => Len(loc[r].lines) <= 1
           /\ op[r] = "delete_order" => (loc[r].oid = 1 /\ opening.sold = 1))
        => stock[1] \in SerialStocks(Reqs, [stock |-> opening.stock, has1 |-> opening.sold = 1])

\* C9: add_order, delete_order and storefront_sale contact the Sheets mirror
\* and the webhook only after their local commit, and the sync step commits
\* nothing of the local transaction.
SyncAfterCommit ==
    \A r \in Reqs :
        op[r] \in {"add_order", "delete_order", "storefront_sale"}
            => /\ told[r] # "uncommitted"
               /\ pc[r] = "do_commit" => ~wrote[r]

\* C10: once add_product, edit_product, add_order or storefront_sale has
\* committed its mutation, nothing in the external-sync step raises out of
\* the handler or turns the reported outcome into a failure.
SyncNeverFailsHandler ==
    \A r \in Reqs :
        (/\ op[r] \in {"add_product", "edit_product", "add_order", "storefront_sale"}
         /\ pc[r] = "done"
         /\ loc[r].committed)
            => result[r] \in {"success", "warning"}

NoContactWhileDisabled ==
    /\ ~contactedOpen
    /\ status.error_count <= ErrorThreshold

ReenableOnlyByReset ==
    [][(~status.enabled /\ status'.enabled) => status' = InitialStatus]_vars

\* C11: while 'enabled' is True, a sync function that finds the external
\* configuration missing or invalid increments error_count (the step in
\* which it gives up is one that reports the failure).
ConfigFailureCounted == missed # "config"

\* C12: while 'enabled' is True, a failed webhook POST and a failed
\* metadata lookup of get_or_create_sheet increment error_count as a failed
\* Sheets values call does.
EveryFailureCounted == missed \notin {"metadata", "webhook"}

\* C17: send_to_n8n_webhook returns True exactly when the POST was answered
\* with a status of the 2xx class, and False for every other outcome.
WebhookSuccessIs2xx ==
    hook.reply # "none" => (hook.ret <=> hook.reply \in SuccessClass)

\* C13: every product's committed stock is >= 0, and no request holds a
\* stock below 0 in its session: a sale line that asks for more than the
\* stock it reads is never booked.
StockNonNegative ==
    /\ \A p \in Products : stock[p] >= 0
    /\ \A r \in Reqs : \A p \in sess[r].loaded : sess[r].rows[p].stock >= 0

\* a sale with at least one line was committed and an add_order line was
\* refused for lack of stock
SalesCommittedAndRefused ==
    /\ \E r \in Reqs : /\ op[r] \in {"add_order", "storefront_sale"}
                       /\ loc[r].committed
                       /\ loc[r].lines # <<>>
    /\ \E r \in Reqs : op[r] = "add_order" /\ result[r] = "insufficient"

\* C14: with order 1 (one unit of product 1) and only delete_order requests,
\* every committed state is either the initial one, or the one in which the
\* stock is one higher, one ledger entry +1 "deleted" is added and the order
\* and its item are gone.
DeleteOrderAllOrNothing ==
    (opening.sold = 1 /\ \A r \in Reqs : op[r] \in {"none", "delete_order"})
        => \/ /\ 1 \in DOMAIN orders
              /\ Len(orderItems) = 1
              /\ stock[1] = opening.stock
              /\ ledger = OpeningLedger(opening.stock, opening.sold)
           \/ /\ 1 \notin DOMAIN orders
              /\ orderItems = <<>>
              /\ stock[1] = opening.stock + 1
              /\ ledger = Append(OpeningLedger(opening.stock, opening.sold),
                                 [product |-> 1, quantity |-> 1, note |-> "deleted"])

\* C16: an add_order whose draft holds a line with an empty, non-numeric or
\* non-positive quantity, or a line for a missing product, commits nothing.
AddOrderRejectsInvalidDraft ==
    \A r \in Reqs :
        (op[r] = "add_order" /\ pc[r] = "done" /\ (loc[r].skipped \/ result[r] = "missing"))
            => ~wrote[r]

\* sum of price * quantity over a sequence of order items
RECURSIVE AmountSum(_)
AmountSum(items) ==
    IF items = <<>> THEN 0
    ELSE Head(items).price * Head(items).quantity + AmountSum(Tail(items))

\* C18: in every committed state each order's total_amount is the sum of
\* price * quantity over its items.
OrderTotalsMatch ==
    \A o \in DOMAIN orders :
        orders[o] = AmountSum(SelectSeq(orderItems, LAMBDA it : it.order = o))

\* C19: an order item carries the price its request read from the product,
\* and edit_product and api_update_product leave the order items and the
\* order totals as they are.
PriceSnapshot ==
    /\ [](\A r \in Reqs : \A i \in 1..Len(sess[r].items) :
            sess[r].items[i].price = sess[r].rows[sess[r].items[i].product].price)
    /\ [][\A r \in Reqs :
            (pc[r] = "new" /\ op'[r] \in {"edit_product", "api_update_product"})
                => (orderItems' = orderItems /\ orders' = orders)]_vars

\* a request committed an order whose item copied the product's price, and
\* an edit then changed that price
PriceChangedAfterSale ==
    /\ \E r \in Reqs :
          /\ op[r] \in {"add_order", "storefront_sale"} /\ loc[r].committed
          /\ \E i \in 1..Len(orderItems) :
                /\ orderItems[i].order = loc[r].oid
                /\ orderItems[i].price # price[orderItems[i].product]
    /\ \E r \in Reqs : op[r] \in {"edit_product", "api_update_product"} /\ wrote[r]

\* C20 (as stated): add_inventory run alone with a negative quantity that
\* leaves the stock of an existing product >= 0 is accepted.
AddInventorySigned ==
    \A r \in Reqs :
        (/\ op[r] = "add_inventory" /\ pc[r] = "done"
         /\ \A x \in Reqs \ {r} : pc[x] = "new"
         /\ loc[r].lines # <<>>
         /\ loc[r].lines[1][1] \in pExists
         /\ loc[r].lines[1][2] < 0
         /\ stock[loc[r].lines[1][1]] + loc[r].lines[1][2] >= 0)
            => result[r] = "success"

\* C20 (amended): add_inventory accepts a positive quantity only; its commit
\* writes the stock it read plus the quantity together with exactly one
\* ledger entry of that quantity, and a quantity <= 0 is rejected with
\* stock and ledger unchanged.
AddInventoryPositiveOnly ==
    [][\A r \in Reqs :
        /\ (pc[r] = "ai_commit" /\ pc'[r] = "done")
              => LET p == loc[r].lines[1][1]
                     q == loc[r].lines[1][2]
                 IN  /\ q > 0
                     /\ stock'[p] = sess[r].rows[p].stock
                     /\ \A x \in Products \ {p} : stock'[x] = stock[x]
                     /\ ledger' = Append(ledger, [product |-> p, quantity |-> q, note |-> "stock"])
        /\ (pc[r] = "new" /\ op'[r] = "add_inventory" /\ loc'[r].lines # <<>>
                /\ loc'[r].lines[1][2] <= 0)
              => /\ result'[r] = "invalid"
                 /\ stock' = stock
                 /\ ledger' = ledger
                 /\ sess' = sess]_vars

\* one add_inventory was accepted and one with a negative quantity was
\* rejected
AdjustmentAcceptedAndRejected ==
    /\ \E r \in Reqs : op[r] = "add_inventory" /\ result[r] = "success"
    /\ \E r \in Reqs : /\ op[r] = "add_inventory" /\ result[r] = "invalid"
                       /\ loc[r].lines # <<>> /\ loc[r].lines[1][2] < 0

NoAnonymousMutation ==
    \A r \in Reqs : loc[r].anon => ~wrote[r]

\* C24: the low-stock notification of add_order commits none of the order's
\* changes: the step that calls create_notification leaves the committed
\* stock, ledger, orders and order items as they are, so that they are
\* committed at the same point with and without a notification.
NotificationCommitsNothing ==
    [][\A r \in Reqs :
        (pc[r] = "ao_notify" /\ pc'[r] # "ao_notify")
            => /\ stock' = stock
               /\ ledger' = ledger
               /\ orders' = orders
               /\ orderItems' = orderItems]_vars

\* C26: a storefront_sale one of whose lines asked for more than the stock
\* or named a missing product commits nothing: no order, no item, no ledger
\* entry, no stock change.
StorefrontAllOrNothing ==
    \A r \in Reqs :
        (op[r] = "storefront_sale" /\ loc[r].refused) => ~wrote[r]

\* C28: every committed order has at least one order item.
OrdersHaveItems ==
    \A o \in DOMAIN orders : \E i \in 1..Len(orderItems) : orderItems[i].order = o

\* request r stands before "with stock_update_lock" of add_order with a line
\* to book while another request holds the lock
WaitingForLock(r) ==
    pc[r] = "ao_loop" /\ loc[r].n < MaxLines /\ lock \notin {0, r}

StatusConsistent ==
    /\ status.enabled <=> status.error_count < ErrorThreshold
    /\ status.error_count = 0 => status.last_error = "none"

\* two failures were reported after a success: one below the threshold
StatusBelowThresholdAfterSuccess ==
    /\ status.error_count = ErrorThreshold - 1
    /\ status.enabled
    /\ status.last_error # "none"
    /\ status.last_success = "recorded"

\* C23: when no thread is inside update_google_sheets_status, error_count
\* is the number of failures reported (none is lost, whatever the
\* interleaving of the statements), so that 'enabled' is False from the
\* third reported failure on.
NoLostIncrement ==
    (\A c \in Clients : reporter[c].pc = "idle")
        => /\ status.error_count = reports
           /\ reports >= ErrorThreshold => ~status.enabled

\* C21: as long as every call has worked and the calls have followed one
\* another, setup_google_sheets_structure sends the addSheet request only
\* when sheet Products is missing and the header write only when the header
\* row is missing, has made both when it has returned True, and changes
\* nothing in a spreadsheet that has both.
SetupIdempotent ==
    /\ [](\A c \in Clients :
            (clean /\ mirror[c].fn = "setup" /\ mirror[c].pc = "idle" /\ mirror[c].ret)
                => ("Products" \in spreadsheet.sheets /\ spreadsheet.header))
    /\ [][clean' =>
            \A c \in Clients :
                /\ (mirror[c].pc = "s_create" /\ mirror'[c].pc # "s_create")
                      => "Products" \notin spreadsheet.sheets
                /\ (mirror[c].pc = "s_put" /\ mirror'[c].pc # "s_put")
                      => ~spreadsheet.header
                /\ (InSetup(c) /\ mirror'[c] # mirror[c]
                        /\ "Products" \in spreadsheet.sheets /\ spreadsheet.header)
                      => spreadsheet' = spreadsheet]_vars

\* a thread's second call in a row found the structure made and returned
\* True, every call so far having worked
SetupCalledAgain ==
    /\ clean
    /\ \E c \in Clients : /\ mirror[c].fn = "setup" /\ mirror[c].pc = "idle"
                           /\ mirror[c].calls = 2 /\ mirror[c].ret
    /\ spreadsheet.header

\* C25: sheet Current_Inventory holds at most one data row per product id.
UpsertUnique ==
    \A id \in Products :
        Cardinality({i \in 1..Len(spreadsheet.inventory) : spreadsheet.inventory[i].id = id}) <= 1

\* C29: when add_product_to_google_sheets_realtime has returned True, its
\* call of update_main_products_sheet has updated or appended the product's
\* row in Current_Inventory.
SyncedImpliesMirrored ==
    \A c \in Clients :
        (mirror[c].fn = "realtime" /\ mirror[c].pc = "idle" /\ mirror[c].ret)
            => mirror[c].upserted

====
